---------------------------- MODULE Spec2Model ----------------------------
(***************************************************************************)
(* Model of src/src/citra_qt/bootmanager.cpp: the emulation thread loop    *)
(* (EmuThread::run), the hand-over of the GL context between the GUI       *)
(* thread and the emulation thread (GRenderWindow::moveContext and         *)
(* friends), and the translation of gamepad / keyboard input into key-map  *)
(* presses and releases.                                                   *)
(*                                                                         *)
(* Two threads take steps: GUI (the presentation thread, qApp->thread())   *)
(* and EMU (the EmuThread).  Every access of EmuThread::run to a flag      *)
(* shared with the GUI thread is a step of its own.                        *)
(***************************************************************************)
EXTENDS Integers, Sequences, FiniteSets, TLC

GUI == "gui"
EMU == "emu"
Threads == {GUI, EMU}

\* Budgets of the presentation thread's calls (they bound the histories).
MaxSetRunning == 3
MaxStepReq == 2

VARIABLES
    \* ---- EmuThread (bootmanager.cpp:24-72) ----
    pc,            \* position of the emulation thread in run()
    running,       \* EmuThread::running
    exec_step,     \* EmuThread::exec_step
    stop_run,      \* EmuThread::stop_run
    was_active,    \* local of run(), line 37
    mutex,         \* holder of running_mutex: "none" or EMU
    \* ---- GL context (bootmanager.cpp:124-154, 390-400) ----
    ctx_thread,    \* thread the context object lives in (moveToThread)
    current,       \* threads on which the context is current
    emu_thread,    \* GRenderWindow::emu_thread != nullptr
    fatal,         \* the process was aborted by a fatal ownership violation
    \* ---- history ----
    notes,         \* the notifications emitted so far, in order
    nSetRunning,   \* setRunning calls made
    nStepReq,      \* requestSingleStep calls made
    owed,          \* step requests accepted and not yet executed
    active,        \* the scheduler is executing the machine (not idle)
    i2a, a2i,      \* inactive->active and active->inactive transitions
    stopped,       \* a stop was requested after the thread was started
    ctx_op,        \* the last operation on the GL context
    \* ---- input translation (bootmanager.cpp:257-343) ----
    keymap,        \* KeyMap table of keyboard_id: physical code -> target
    config,        \* Settings::values.input_mappings
    reload_i,      \* position of ReloadSetKeymaps: -1 idle, else next index
    old_keymap,    \* the table as it was when the running reload began
    pressed,       \* machine input state: the targets held down
    emitted,       \* the KeyMap calls made by the last input event
    sample,        \* the axis sample being handled, and the calls left
    axis_prev,     \* per handled axis, the value of its last sample
    lookup,        \* the last key-map lookup, and the tables around it
    button_ev,     \* the last controller button event
    \* ---- the machine (Core::System), as the scheduler drives it ----
    core_error,    \* a RunLoop or SingleStep call has reported a fatal error
    nShutdown,     \* Shutdown calls made
    step_in_run    \* a step was requested during a RunLoop call and is pending

schedVars == <<pc, running, exec_step, stop_run, was_active, mutex>>
ctxVars == <<ctx_thread, current, emu_thread, fatal, ctx_op>>
histVars == <<notes, nSetRunning, nStepReq, owed, active, i2a, a2i, stopped>>
inputVars == <<keymap, config, reload_i, old_keymap, pressed, emitted, sample, axis_prev, lookup, button_ev>>
machVars == <<core_error, nShutdown, step_in_run>>
vars == <<schedVars, ctxVars, histVars, inputVars, machVars>>

NoOp == [op |-> "none", by |-> GUI, dest |-> GUI, owned |-> FALSE, elsewhere |-> FALSE]

-----------------------------------------------------------------------------
(* The GL context.  child->makeCurrent(), child->doneCurrent() and         *)
(* child->context()->moveToThread() are calls into Qt 5: a context can be  *)
(* made current only on the thread it lives in (a call on another thread   *)
(* is fatal), and an object is moved only by the thread it lives in.       *)

\* child->makeCurrent() on thread t
makeCurrent(t) ==
    /\ ctx_op' = [op |-> "make", by |-> t, dest |-> t, owned |-> (ctx_thread = t),
                  elsewhere |-> (current \ {t} # {})]
    /\ IF ctx_thread = t
          THEN current' = current \cup {t} /\ fatal' = fatal
          ELSE current' = current /\ fatal' = TRUE
    /\ UNCHANGED <<ctx_thread, emu_thread>>

\* child->doneCurrent() on thread t: the set of threads it leaves current
doneCurrent(t) == current \ {t}

\* child->context()->moveToThread(dest) called on thread t
moveToThread(t, dest) == IF ctx_thread = t THEN dest ELSE ctx_thread

\* GRenderWindow::MakeCurrent, called on thread t
MakeCurrent(t) == makeCurrent(t)

\* GRenderWindow::DoneCurrent, called on thread t
DoneCurrent(t) == doneCurrent(t)

\* a destination that ignores the caller and emu_thread
moveDest_ToGui(t) == GUI

\* The destination moveContext chooses when called on thread t
moveDest(t) == IF t = GUI /\ emu_thread THEN EMU ELSE GUI

\* moveContext without its DoneCurrent(): the context is moved while current
moveContext_NoRelease(t) ==
    /\ current' = current
    /\ ctx_thread' = moveToThread(t, moveDest(t))
    /\ ctx_op' = [op |-> "move", by |-> t, dest |-> moveDest(t),
                  owned |-> (ctx_thread = t), elsewhere |-> (current \ {t} # {})]
    /\ UNCHANGED <<emu_thread, fatal>>

\* moveContext without the moveToThread (the branch compiled out before Qt 5)
moveContext_NoMove(t) ==
    /\ current' = DoneCurrent(t)
    /\ ctx_thread' = ctx_thread
    /\ ctx_op' = [op |-> "move", by |-> t, dest |-> moveDest(t),
                  owned |-> (ctx_thread = t), elsewhere |-> (current \ {t} # {})]
    /\ UNCHANGED <<emu_thread, fatal>>

\* GRenderWindow::moveContext, called on thread t
moveContext(t) ==
    /\ current' = DoneCurrent(t)
    /\ ctx_thread' = moveToThread(t, moveDest(t))
    /\ ctx_op' = [op |-> "move", by |-> t, dest |-> moveDest(t),
                  owned |-> (ctx_thread = t), elsewhere |-> (current \ {t} # {})]
    /\ UNCHANGED <<emu_thread, fatal>>

\* GRenderWindow::SwapBuffers, called on thread t; debug is !defined(QT_NO_DEBUG)
SwapBuffers(t, debug) ==
    IF debug THEN makeCurrent(t) ELSE UNCHANGED ctxVars

-----------------------------------------------------------------------------
(* History bookkeeping of the scheduler's activity.                        *)

Emit(n) == notes' = Append(notes, n)

GoActive ==
    /\ active' = TRUE
    /\ i2a' = IF active THEN i2a ELSE i2a + 1
    /\ a2i' = a2i

GoInactive ==
    /\ active' = FALSE
    /\ a2i' = IF active THEN a2i + 1 ELSE a2i
    /\ i2a' = i2a

KeepActivity == UNCHANGED <<active, i2a, a2i>>

KeepReq == UNCHANGED <<nSetRunning, nStepReq, stopped>>

-----------------------------------------------------------------------------
(* The presentation thread's calls on the EmuThread.  bootmanager.h is not *)
(* among the sources: each call takes running_mutex, writes its flag and   *)
(* signals running_cv, as sections 4.1, 5 and 6 of the specification say.  *)

\* running_cv.notify_all(): a thread blocked in the wait is woken
Notified == IF pc = "waiting" THEN "woken" ELSE pc

\* QThread::start()
Start ==
    /\ ~fatal
    /\ pc = "idle"
    /\ pc' = "L28"
    /\ UNCHANGED <<running, exec_step, stop_run, was_active, mutex>>
    /\ UNCHANGED <<ctxVars, histVars, inputVars>>
    /\ UNCHANGED machVars

SetRunning(b) ==
    /\ ~fatal
    /\ mutex = "none"
    /\ nSetRunning < MaxSetRunning
    /\ running' = b
    /\ pc' = Notified
    /\ nSetRunning' = nSetRunning + 1
    /\ UNCHANGED <<exec_step, stop_run, was_active, mutex>>
    /\ UNCHANGED <<notes, nStepReq, owed, active, i2a, a2i, stopped>>
    /\ UNCHANGED <<ctxVars, inputVars>>
    /\ UNCHANGED machVars

\* requestSingleStep()
ExecStep ==
    /\ ~fatal
    /\ mutex = "none"
    /\ nStepReq < MaxStepReq
    /\ exec_step' = TRUE
    /\ pc' = Notified
    /\ nStepReq' = nStepReq + 1
    /\ owed' = IF exec_step THEN owed ELSE owed + 1
    /\ UNCHANGED <<running, stop_run, was_active, mutex>>
    /\ UNCHANGED <<notes, nSetRunning, active, i2a, a2i, stopped>>
    /\ UNCHANGED <<ctxVars, inputVars>>
    /\ step_in_run' = (step_in_run \/ pc \in {"L43", "L45", "L45b"})
    /\ UNCHANGED <<core_error, nShutdown>>

RequestStop ==
    /\ ~fatal
    /\ mutex = "none"
    /\ stop_run' = TRUE
    /\ pc' = Notified
    /\ stopped' = (stopped \/ pc \notin {"idle", "done"})
    /\ UNCHANGED <<running, exec_step, was_active, mutex>>
    /\ UNCHANGED <<notes, nSetRunning, nStepReq, owed, active, i2a, a2i>>
    /\ UNCHANGED <<ctxVars, inputVars>>
    /\ UNCHANGED machVars

-----------------------------------------------------------------------------
(* The presentation thread's calls on the GRenderWindow.                   *)

GuiMakeCurrent ==
    /\ ~fatal
    /\ MakeCurrent(GUI)
    /\ UNCHANGED <<schedVars, histVars, inputVars>>
    /\ UNCHANGED machVars

GuiMoveContext ==
    /\ ~fatal
    /\ moveContext(GUI)
    /\ UNCHANGED <<schedVars, histVars, inputVars>>
    /\ UNCHANGED machVars

OnEmulationStarting ==
    /\ ~fatal
    /\ ~emu_thread
    /\ emu_thread' = TRUE
    /\ UNCHANGED <<ctx_thread, current, fatal, ctx_op>>
    /\ UNCHANGED <<schedVars, histVars, inputVars>>
    /\ UNCHANGED machVars

OnEmulationStopping ==
    /\ ~fatal
    /\ emu_thread
    /\ emu_thread' = FALSE
    /\ UNCHANGED <<ctx_thread, current, fatal, ctx_op>>
    /\ UNCHANGED <<schedVars, histVars, inputVars>>
    /\ UNCHANGED machVars

-----------------------------------------------------------------------------
(* EmuThread::run, one action per step.                                    *)

\* line 28: render_window->MakeCurrent()
RunEntry ==
    /\ ~fatal
    /\ pc = "L28"
    /\ MakeCurrent(EMU)
    /\ pc' = "L32"
    /\ UNCHANGED <<running, exec_step, stop_run, was_active, mutex>>
    /\ UNCHANGED <<histVars, inputVars>>
    /\ UNCHANGED machVars

\* lines 32-37: stop_run = false; bool was_active = false
RunResetStop ==
    /\ ~fatal
    /\ pc = "L32"
    /\ stop_run' = FALSE
    /\ was_active' = FALSE
    /\ pc' = "L38"
    /\ UNCHANGED <<running, exec_step, mutex>>
    /\ UNCHANGED <<ctxVars, histVars, inputVars>>
    /\ UNCHANGED machVars

\* line 38: while (!stop_run)
RunTestStop ==
    /\ ~fatal
    /\ pc = "L38"
    /\ pc' = IF stop_run THEN "L65" ELSE "L39"
    /\ IF stop_run THEN GoInactive ELSE KeepActivity
    /\ UNCHANGED <<running, exec_step, stop_run, was_active, mutex>>
    /\ UNCHANGED <<notes, owed>> /\ KeepReq
    /\ UNCHANGED <<ctxVars, inputVars>>
    /\ UNCHANGED machVars

\* line 39: if (running)
RunTestRunning ==
    /\ ~fatal
    /\ pc = "L39"
    /\ pc' = IF running THEN "L40" ELSE "L48"
    /\ IF running THEN GoActive ELSE KeepActivity
    /\ UNCHANGED <<running, exec_step, stop_run, was_active, mutex>>
    /\ UNCHANGED <<notes, owed>> /\ KeepReq
    /\ UNCHANGED <<ctxVars, inputVars>>
    /\ UNCHANGED machVars

\* lines 40-41 without the test of was_active
RunLeftBeforeLoop_Always ==
    /\ ~fatal
    /\ pc = "L40"
    /\ Emit("Left")
    /\ pc' = "L43"
    /\ UNCHANGED <<running, exec_step, stop_run, was_active, mutex>>
    /\ UNCHANGED owed /\ KeepActivity /\ KeepReq
    /\ UNCHANGED <<ctxVars, inputVars>>
    /\ UNCHANGED machVars

\* lines 40-41: if (!was_active) emit DebugModeLeft()
RunLeftBeforeLoop ==
    /\ ~fatal
    /\ pc = "L40"
    /\ IF ~was_active THEN Emit("Left") ELSE notes' = notes
    /\ pc' = "L43"
    /\ UNCHANGED <<running, exec_step, stop_run, was_active, mutex>>
    /\ UNCHANGED owed /\ KeepActivity /\ KeepReq
    /\ UNCHANGED <<ctxVars, inputVars>>
    /\ UNCHANGED machVars

\* line 43: Core::System::GetInstance().RunLoop(); the renderer may swap
\* buffers; the status the call returns (success, or an error when err) is
\* discarded
RunLoopCall(err) ==
    /\ ~fatal
    /\ pc = "L43"
    /\ \E swap \in BOOLEAN, debug \in BOOLEAN :
          IF swap THEN SwapBuffers(EMU, debug) ELSE UNCHANGED ctxVars
    /\ pc' = "L45"
    /\ core_error' = (core_error \/ err)
    /\ UNCHANGED <<running, exec_step, stop_run, was_active, mutex>>
    /\ UNCHANGED <<histVars, inputVars>>
    /\ UNCHANGED <<nShutdown, step_in_run>>

\* the call returns success
RunLoop == RunLoopCall(FALSE)

\* the call reports a fatal internal error of the machine
RunLoopFails == RunLoopCall(TRUE)

\* line 45, left operand: was_active = running || ...
RunRecomputeRunning ==
    /\ ~fatal
    /\ pc = "L45"
    /\ IF running THEN was_active' = TRUE /\ pc' = "L46"
                  ELSE was_active' = was_active /\ pc' = "L45b"
    /\ UNCHANGED <<running, exec_step, stop_run, mutex>>
    /\ UNCHANGED <<ctxVars, histVars, inputVars>>
    /\ UNCHANGED machVars

\* line 45 as was_active = running, the step flag ignored
RunRecomputeStep_IgnoreStep ==
    /\ ~fatal
    /\ pc = "L45b"
    /\ was_active' = FALSE
    /\ pc' = "L46"
    /\ GoInactive
    /\ UNCHANGED <<running, exec_step, stop_run, mutex>>
    /\ UNCHANGED <<notes, owed>> /\ KeepReq
    /\ UNCHANGED <<ctxVars, inputVars, machVars>>

\* line 45, right operand: was_active = ... || exec_step
RunRecomputeStep ==
    /\ ~fatal
    /\ pc = "L45b"
    /\ was_active' = exec_step
    /\ pc' = "L46"
    /\ IF exec_step THEN KeepActivity ELSE GoInactive
    /\ UNCHANGED <<running, exec_step, stop_run, mutex>>
    /\ UNCHANGED <<notes, owed>> /\ KeepReq
    /\ UNCHANGED <<ctxVars, inputVars>>
    /\ UNCHANGED machVars

\* lines 46-47 without the test of was_active
RunEnteredAfterLoop_Always ==
    /\ ~fatal
    /\ pc = "L46"
    /\ IF ~stop_run THEN Emit("Entered") ELSE notes' = notes
    /\ pc' = "L38"
    /\ UNCHANGED <<running, exec_step, stop_run, was_active, mutex>>
    /\ UNCHANGED owed /\ KeepActivity /\ KeepReq
    /\ UNCHANGED <<ctxVars, inputVars, machVars>>

\* lines 46-47: if (!was_active && !stop_run) emit DebugModeEntered()
RunEnteredAfterLoop ==
    /\ ~fatal
    /\ pc = "L46"
    /\ IF ~was_active /\ ~stop_run THEN Emit("Entered") ELSE notes' = notes
    /\ pc' = "L38"
    /\ UNCHANGED <<running, exec_step, stop_run, was_active, mutex>>
    /\ UNCHANGED owed /\ KeepActivity /\ KeepReq
    /\ UNCHANGED <<ctxVars, inputVars>>
    /\ UNCHANGED machVars

\* line 48: else if (exec_step)
RunTestStep ==
    /\ ~fatal
    /\ pc = "L48"
    /\ pc' = IF exec_step THEN "L49" ELSE "L59"
    /\ IF exec_step THEN GoActive ELSE KeepActivity
    /\ UNCHANGED <<running, exec_step, stop_run, was_active, mutex>>
    /\ UNCHANGED <<notes, owed>> /\ KeepReq
    /\ UNCHANGED <<ctxVars, inputVars>>
    /\ UNCHANGED machVars

\* lines 49-50: if (!was_active) emit DebugModeLeft()
RunLeftBeforeStep ==
    /\ ~fatal
    /\ pc = "L49"
    /\ IF ~was_active THEN Emit("Left") ELSE notes' = notes
    /\ pc' = "L52"
    /\ UNCHANGED <<running, exec_step, stop_run, was_active, mutex>>
    /\ UNCHANGED owed /\ KeepActivity /\ KeepReq
    /\ UNCHANGED <<ctxVars, inputVars>>
    /\ UNCHANGED machVars

\* line 52 left out: the step flag is never cleared
RunClearStep_Keep ==
    /\ ~fatal
    /\ pc = "L52"
    /\ exec_step' = exec_step
    /\ pc' = "L53"
    /\ UNCHANGED <<running, stop_run, was_active, mutex>>
    /\ UNCHANGED <<ctxVars, histVars, inputVars>>
    /\ step_in_run' = FALSE
    /\ UNCHANGED <<core_error, nShutdown>>

\* line 52: exec_step = false
RunClearStep ==
    /\ ~fatal
    /\ pc = "L52"
    /\ exec_step' = FALSE
    /\ pc' = "L53"
    /\ UNCHANGED <<running, stop_run, was_active, mutex>>
    /\ UNCHANGED <<ctxVars, histVars, inputVars>>
    /\ step_in_run' = FALSE
    /\ UNCHANGED <<core_error, nShutdown>>

\* line 53: Core::System::GetInstance().SingleStep(); the status the call
\* returns (success, or an error when err) is discarded
SingleStepCall(err) ==
    /\ ~fatal
    /\ pc = "L53"
    /\ owed' = owed - 1
    /\ pc' = "L54"
    /\ core_error' = (core_error \/ err)
    /\ UNCHANGED <<running, exec_step, stop_run, was_active, mutex>>
    /\ UNCHANGED notes /\ KeepActivity /\ KeepReq
    /\ UNCHANGED <<ctxVars, inputVars>>
    /\ UNCHANGED <<nShutdown, step_in_run>>

\* the call returns success
SingleStep == SingleStepCall(FALSE)

\* the call reports a fatal internal error of the machine
SingleStepFails == SingleStepCall(TRUE)

\* lines 54-57: emit DebugModeEntered(); yieldCurrentThread(); was_active = false
RunEnteredAfterStep ==
    /\ ~fatal
    /\ pc = "L54"
    /\ Emit("Entered")
    /\ was_active' = FALSE
    /\ pc' = "L38"
    /\ GoInactive
    /\ UNCHANGED <<running, exec_step, stop_run, mutex>>
    /\ UNCHANGED owed /\ KeepReq
    /\ UNCHANGED <<ctxVars, inputVars>>
    /\ UNCHANGED machVars

\* line 59: std::unique_lock<std::mutex> lock(running_mutex)
RunLock ==
    /\ ~fatal
    /\ pc = "L59"
    /\ mutex = "none"
    /\ mutex' = EMU
    /\ pc' = "L60"
    /\ UNCHANGED <<running, exec_step, stop_run, was_active>>
    /\ UNCHANGED <<ctxVars, histVars, inputVars>>
    /\ UNCHANGED machVars

\* The predicate of the wait, line 60
WaitPredicate == running \/ exec_step \/ stop_run

\* line 60 with a predicate that is always true: the thread never blocks
RunWait_NoBlock ==
    /\ ~fatal
    /\ pc = "L60"
    /\ mutex = EMU
    /\ mutex' = "none"
    /\ pc' = "L38"
    /\ KeepActivity
    /\ UNCHANGED <<running, exec_step, stop_run, was_active>>
    /\ UNCHANGED <<notes, owed>> /\ KeepReq
    /\ UNCHANGED <<ctxVars, inputVars>>
    /\ UNCHANGED machVars

\* line 60 with a predicate that leaves out IsRunning()
RunWait_StepOrStop ==
    /\ ~fatal
    /\ pc = "L60"
    /\ mutex = EMU
    /\ mutex' = "none"
    /\ pc' = IF exec_step \/ stop_run THEN "L38" ELSE "waiting"
    /\ IF exec_step \/ stop_run THEN KeepActivity ELSE GoInactive
    /\ UNCHANGED <<running, exec_step, stop_run, was_active>>
    /\ UNCHANGED <<notes, owed>> /\ KeepReq
    /\ UNCHANGED <<ctxVars, inputVars, machVars>>

\* line 60: running_cv.wait(lock, pred), with the lock held: return with the
\* predicate true (the lock is released at line 61), else release and block
RunWait ==
    /\ ~fatal
    /\ pc = "L60"
    /\ mutex = EMU
    /\ mutex' = "none"
    /\ pc' = IF WaitPredicate THEN "L38" ELSE "waiting"
    /\ IF WaitPredicate THEN KeepActivity ELSE GoInactive
    /\ UNCHANGED <<running, exec_step, stop_run, was_active>>
    /\ UNCHANGED <<notes, owed>> /\ KeepReq
    /\ UNCHANGED <<ctxVars, inputVars>>
    /\ UNCHANGED machVars

\* a wakeup of the blocked thread that no notify_all caused
SpuriousWake ==
    /\ ~fatal
    /\ pc = "waiting"
    /\ pc' = "woken"
    /\ UNCHANGED <<running, exec_step, stop_run, was_active, mutex>>
    /\ UNCHANGED <<ctxVars, histVars, inputVars>>
    /\ UNCHANGED machVars

\* the woken thread takes the lock again and re-evaluates the predicate
RunWake ==
    /\ ~fatal
    /\ pc = "woken"
    /\ mutex = "none"
    /\ mutex' = EMU
    /\ pc' = "L60"
    /\ UNCHANGED <<running, exec_step, stop_run, was_active>>
    /\ UNCHANGED <<ctxVars, histVars, inputVars>>
    /\ UNCHANGED machVars

\* line 65 left out: the thread goes on to its exit without the call
Shutdown_NotCalled ==
    /\ ~fatal
    /\ pc = "L65"
    /\ pc' = "L71"
    /\ UNCHANGED <<running, exec_step, stop_run, was_active, mutex>>
    /\ UNCHANGED <<ctxVars, histVars, inputVars, machVars>>

\* line 65: Core::System::GetInstance().Shutdown()
Shutdown ==
    /\ ~fatal
    /\ pc = "L65"
    /\ pc' = "L71"
    /\ UNCHANGED <<running, exec_step, stop_run, was_active, mutex>>
    /\ UNCHANGED <<ctxVars, histVars, inputVars>>
    /\ nShutdown' = nShutdown + 1
    /\ UNCHANGED <<core_error, step_in_run>>

\* line 71: render_window->moveContext()
RunExit ==
    /\ ~fatal
    /\ pc = "L71"
    /\ moveContext(EMU)
    /\ pc' = "done"
    /\ UNCHANGED <<running, exec_step, stop_run, was_active, mutex>>
    /\ UNCHANGED <<histVars, inputVars>>
    /\ UNCHANGED machVars

EmuStep ==
    \/ RunEntry \/ RunResetStop \/ RunTestStop \/ RunTestRunning
    \/ RunLeftBeforeLoop \/ RunLoop \/ RunRecomputeRunning \/ RunRecomputeStep
    \/ RunEnteredAfterLoop \/ RunTestStep \/ RunLeftBeforeStep \/ RunClearStep
    \/ SingleStep \/ RunEnteredAfterStep \/ RunLock \/ RunWait \/ RunWake
    \/ Shutdown \/ RunExit

GuiStep ==
    \/ Start
    \/ \E b \in BOOLEAN : SetRunning(b)
    \/ ExecStep
    \/ RequestStop
    \/ GuiMakeCurrent
    \/ GuiMoveContext
    \/ OnEmulationStarting
    \/ OnEmulationStopping

-----------------------------------------------------------------------------
(* Input translation.  core/frontend/key_map.cpp is not among the sources: *)
(* the table and its operations follow section 4.3 of the specification.   *)

\* Qt key codes used by the code
Key_Left == 16777234
Key_Up == 16777235
Key_Right == 16777236
Key_Down == 16777237
Key_A == 65
Codes == {Key_Left, Key_Up, Key_Right, Key_Down, Key_A}

\* the dead zone of gamepadAxisEvent
Threshold == 8000

\* SDL axis identifiers: the two the code handles, and another one
Axes == {"leftx", "lefty", "rightx"}
HandledAxes == {"leftx", "lefty"}

\* sample values: Sint16 extremes, both sides of both thresholds, neutral
AxisValues == {-32768, -9000, -8001, -8000, 0, 8000, 8001, 9000, 32767}

\* Settings::values.input_mappings: per native input (up, down, left, right
\* here), the physical code bound to it; the target of input i is i
DefaultConfig == <<Key_Up, Key_Down, Key_Left, Key_Right>>
SwappedConfig == <<Key_Up, Key_Down, Key_Right, Key_Left>>
PartialConfig == <<Key_A, Key_Down, Key_Left, Key_Right>>
Configs == {DefaultConfig, SwappedConfig, PartialConfig}
NUM_INPUTS == Len(DefaultConfig)

EmptyMap == [c \in {} |-> 0]

\* KeyMap::ClearKeyMapping(device)
ClearKeyMapping(table) == EmptyMap

\* KeyMap::SetKeyMapping({code, device}, target)
SetKeyMapping(table, code, target) ==
    [c \in (DOMAIN table) \cup {code} |-> IF c = code THEN target ELSE table[c]]

\* KeyMap::PressKey / KeyMap::ReleaseKey: the machine input state after the
\* call c = <<kind, code>>; an unbound code changes nothing
KeyMapCall(table, held, c) ==
    IF c[2] \notin DOMAIN table THEN held
    ELSE IF c[1] = "press" THEN held \cup {table[c[2]]}
    ELSE held \ {table[c[2]]}

\* the table a complete ReloadSetKeymaps builds from cfg
RECURSIVE Rebuilt(_, _)
Rebuilt(cfg, n) ==
    IF n = 0 THEN EmptyMap
    ELSE SetKeyMapping(Rebuilt(cfg, n - 1), cfg[n], n)

NewTable(cfg) == Rebuilt(cfg, Len(cfg))

NoLookup == [mid |-> FALSE, found |-> FALSE, inOld |-> FALSE, inNew |-> FALSE,
             sawOld |-> TRUE, sawNew |-> TRUE]

\* what a lookup of code sees, against the table before the reload in
\* progress (if any) and the table the configuration asks for
Looked(code) ==
    LET old == IF reload_i = 0 THEN keymap ELSE old_keymap
        new == NewTable(config)
    IN  [mid |-> (reload_i # 0), found |-> (code \in DOMAIN keymap),
         inOld |-> (code \in DOMAIN old), inNew |-> (code \in DOMAIN new),
         sawOld |-> (keymap = old), sawNew |-> (keymap = new)]

\* the configuration dialog stores new bindings
SettingsChange(cfg) ==
    /\ reload_i = 0
    /\ cfg # config
    /\ config' = cfg
    /\ UNCHANGED <<keymap, reload_i, old_keymap, pressed, emitted, sample, axis_prev, lookup, button_ev>>
    /\ UNCHANGED <<schedVars, ctxVars, histVars>>
    /\ UNCHANGED machVars

\* ReloadSetKeymaps, line 337: KeyMap::ClearKeyMapping(keyboard_id)
ReloadClear ==
    /\ reload_i = 0
    /\ old_keymap' = keymap
    /\ keymap' = ClearKeyMapping(keymap)
    /\ reload_i' = 1
    /\ UNCHANGED <<config, pressed, emitted, sample, axis_prev, lookup, button_ev>>
    /\ UNCHANGED <<schedVars, ctxVars, histVars>>
    /\ UNCHANGED machVars

\* ReloadSetKeymaps, lines 338-342: one turn of the loop
ReloadSet ==
    /\ reload_i > 0
    /\ keymap' = SetKeyMapping(keymap, config[reload_i], reload_i)
    /\ reload_i' = IF reload_i = NUM_INPUTS THEN 0 ELSE reload_i + 1
    /\ UNCHANGED <<config, old_keymap, pressed, emitted, sample, axis_prev, lookup, button_ev>>
    /\ UNCHANGED <<schedVars, ctxVars, histVars>>
    /\ UNCHANGED machVars

\* GRenderWindow::keyPressEvent
keyPressEvent(code) ==
    /\ pressed' = KeyMapCall(keymap, pressed, <<"press", code>>)
    /\ lookup' = Looked(code)
    /\ UNCHANGED <<keymap, config, reload_i, old_keymap, emitted, sample, axis_prev, button_ev>>
    /\ UNCHANGED <<schedVars, ctxVars, histVars>>
    /\ UNCHANGED machVars

\* GRenderWindow::keyReleaseEvent
keyReleaseEvent(code) ==
    /\ pressed' = KeyMapCall(keymap, pressed, <<"release", code>>)
    /\ lookup' = Looked(code)
    /\ UNCHANGED <<keymap, config, reload_i, old_keymap, emitted, sample, axis_prev, button_ev>>
    /\ UNCHANGED <<schedVars, ctxVars, histVars>>
    /\ UNCHANGED machVars

\* gamepadAxisEvent with the thresholds included in the pressed range
gamepadAxisEvent_NonStrict(axis, value) ==
    LET calls(neg, pos) ==
            << <<IF value <= -Threshold THEN "press" ELSE "release", neg>>,
               <<IF value >= Threshold THEN "press" ELSE "release", pos>> >>
    IN  IF axis = "leftx" THEN calls(Key_Left, Key_Right)
        ELSE IF axis = "lefty" THEN calls(Key_Up, Key_Down)
        ELSE <<>>

\* GRenderWindow::gamepadAxisEvent: the KeyMap calls it makes, in order
gamepadAxisEvent(axis, value) ==
    LET calls(neg, pos) ==
            << <<IF value < -Threshold THEN "press" ELSE "release", neg>>,
               <<IF value > Threshold THEN "press" ELSE "release", pos>> >>
    IN  IF axis = "leftx" THEN calls(Key_Left, Key_Right)
        ELSE IF axis = "lefty" THEN calls(Key_Up, Key_Down)
        ELSE <<>>

\* gamepad_mappings as GamepadSetMappings fills it (lines 180-191): of the ten
\* entries, the first and the last; the other buttons here have no entry
Key_T == 84
Buttons == {"a", "dpad_up", "guide"}
gamepad_mappings == [b \in {"a", "dpad_up"} |-> IF b = "a" THEN Key_A ELSE Key_T]

NoButton == [button |-> "none", state |-> "release", mapped |-> FALSE]

\* gamepadButtonEvent that forwards a button without entry as well
gamepadButtonEvent_NoFind(button, state) ==
    LET keycode == IF button \in DOMAIN gamepad_mappings
                      THEN gamepad_mappings[button] ELSE Key_Left
    IN  /\ button_ev' = [button |-> button, state |-> state,
                         mapped |-> (button \in DOMAIN gamepad_mappings)]
        /\ pressed' = KeyMapCall(keymap, pressed, <<state, keycode>>)
        /\ emitted' = << <<state, keycode>> >>
        /\ lookup' = Looked(keycode)
        /\ UNCHANGED <<keymap, config, reload_i, old_keymap, sample, axis_prev>>
        /\ UNCHANGED <<schedVars, ctxVars, histVars, machVars>>

\* GRenderWindow::gamepadButtonEvent: find the button in gamepad_mappings;
\* if it is there, KeyMap::PressKey or ReleaseKey of its key code
gamepadButtonEvent(button, state) ==
    /\ button_ev' = [button |-> button, state |-> state,
                     mapped |-> (button \in DOMAIN gamepad_mappings)]
    /\ IF button \in DOMAIN gamepad_mappings
          THEN LET keycode == gamepad_mappings[button]
               IN  /\ pressed' = KeyMapCall(keymap, pressed, <<state, keycode>>)
                   /\ emitted' = << <<state, keycode>> >>
                   /\ lookup' = Looked(keycode)
          ELSE /\ pressed' = pressed
               /\ emitted' = <<>>
               /\ lookup' = lookup
    /\ UNCHANGED <<keymap, config, reload_i, old_keymap, sample, axis_prev>>
    /\ UNCHANGED <<schedVars, ctxVars, histVars, machVars>>

NoSample == [axis |-> "rightx", value |-> 0, prev |-> <<>>, todo |-> <<>>]

\* PollEvents, lines 167-169: an SDL_CONTROLLERAXISMOTION event is taken up
AxisMotion(axis, value) ==
    /\ sample.todo = <<>>
    /\ sample' = [axis |-> axis, value |-> value,
                  prev |-> IF axis \in HandledAxes THEN axis_prev[axis] ELSE <<>>,
                  todo |-> gamepadAxisEvent(axis, value)]
    /\ emitted' = <<>>
    /\ axis_prev' = IF axis \in HandledAxes
                       THEN [axis_prev EXCEPT ![axis] = <<value>>]
                       ELSE axis_prev
    /\ UNCHANGED <<keymap, config, reload_i, old_keymap, pressed, lookup, button_ev>>
    /\ UNCHANGED <<schedVars, ctxVars, histVars>>
    /\ UNCHANGED machVars

\* the next KeyMap call of the gamepadAxisEvent in progress
AxisCall ==
    /\ sample.todo # <<>>
    /\ pressed' = KeyMapCall(keymap, pressed, Head(sample.todo))
    /\ emitted' = Append(emitted, Head(sample.todo))
    /\ sample' = [sample EXCEPT !.todo = Tail(sample.todo)]
    /\ lookup' = Looked(Head(sample.todo)[2])
    /\ UNCHANGED <<keymap, config, reload_i, old_keymap, axis_prev, button_ev>>
    /\ UNCHANGED <<schedVars, ctxVars, histVars>>
    /\ UNCHANGED machVars

-----------------------------------------------------------------------------
Init ==
    /\ pc = "idle"
    /\ running = FALSE /\ exec_step = FALSE /\ stop_run = FALSE
    /\ was_active = FALSE
    /\ mutex = "none"
    /\ ctx_thread = GUI /\ current = {} /\ emu_thread = FALSE /\ fatal = FALSE
    /\ notes = <<>>
    /\ nSetRunning = 0 /\ nStepReq = 0 /\ owed = 0
    /\ active = FALSE /\ i2a = 0 /\ a2i = 0
    /\ stopped = FALSE
    /\ ctx_op = NoOp
    /\ config = DefaultConfig
    /\ keymap = NewTable(DefaultConfig) /\ old_keymap = EmptyMap
    /\ reload_i = 0
    /\ pressed = {} /\ emitted = <<>>
    /\ sample = NoSample
    /\ axis_prev = [a \in HandledAxes |-> <<>>]
    /\ lookup = NoLookup
    /\ button_ev = NoButton
    /\ core_error = FALSE /\ nShutdown = 0 /\ step_in_run = FALSE

Next == EmuStep \/ SpuriousWake \/ GuiStep

Spec == Init /\ [][Next]_vars

\* gamepad axis motion, with the key map as loaded
NextInput ==
    \/ \E axis \in Axes, value \in AxisValues : AxisMotion(axis, value)
    \/ AxisCall

SpecInput == Init /\ [][NextInput]_vars

\* key events of the keyboard while the bindings are changed and reloaded
NextReload ==
    \/ \E cfg \in Configs : SettingsChange(cfg)
    \/ ReloadClear
    \/ ReloadSet
    \/ \E code \in Codes : keyPressEvent(code)
    \/ \E code \in Codes : keyReleaseEvent(code)

SpecReload == Init /\ [][NextReload]_vars

\* controller buttons and keys, while the bindings are changed and reloaded
NextButtons ==
    \/ \E cfg \in {DefaultConfig, PartialConfig} : SettingsChange(cfg)
    \/ ReloadClear
    \/ ReloadSet
    \/ \E code \in Codes : keyPressEvent(code)
    \/ \E code \in Codes : keyReleaseEvent(code)
    \/ \E b \in Buttons, st \in {"press", "release"} : gamepadButtonEvent(b, st)

SpecButtons == Init /\ [][NextButtons]_vars


\* The same system with a machine whose calls may report a fatal error.
NextFaulty == Next \/ RunLoopFails \/ SingleStepFails

SpecFaulty == Init /\ [][NextFaulty]_vars

\* The emulation thread is scheduled as long as it has a step to take.
FairSpec == Init /\ [][Next]_vars /\ WF_vars(EmuStep)

-----------------------------------------------------------------------------
\* C1: the notifications strictly alternate: no two DebugModeEntered and no
\* two DebugModeLeft follow each other without one of the other kind between.
C1_Alternate ==
    \A i \in 1..(Len(notes) - 1) : notes[i] # notes[i + 1]

C1_Witness ==
    /\ Len(notes) >= 4
    /\ nStepReq > 0 /\ nSetRunning > 0 /\ stopped

\* C2: with setRunning calls only (no step, no stop), whenever the scheduler is
\* between iterations or blocked, the DebugModeEntered notifications emitted
\* are as many as its transitions from active to inactive, and the
\* DebugModeLeft notifications as many as its transitions from inactive to
\* active.
C2_Counts ==
    (pc \in {"L38", "waiting"} /\ nStepReq = 0 /\ ~stop_run /\ ~stopped)
        => (Len(SelectSeq(notes, LAMBDA n : n = "Entered")) = a2i
            /\ Len(SelectSeq(notes, LAMBDA n : n = "Left")) = i2a)

\* C3 as stated: every accepted step request is executed, whatever setRunning
\* and requestStop do: once the thread has finished, none is left over.
C3_EveryRequestStepped ==
    pc = "done" => owed = 0

\* C3 as amended: a request is pending exactly while the flag is set or the
\* scheduler stands between clearing it and the step; the flag is cleared by
\* the scheduler's line 52 only, which leads straight to the step; a step is
\* executed for a request only.
C3_Ledger ==
    /\ [](owed = (IF exec_step THEN 1 ELSE 0) + (IF pc = "L53" THEN 1 ELSE 0))
    /\ [][(exec_step /\ ~exec_step') => (pc = "L52" /\ pc' = "L53")]_vars
    /\ [][(pc = "L53" /\ pc' # "L53") => (owed > 0 /\ owed' = owed - 1)]_vars

\* two requests made before the flag was cleared, executed as one step
C3_Witness ==
    /\ nStepReq = 2 /\ pc = "L54" /\ owed = 0
    /\ notes = <<"Left">> /\ nSetRunning = 0

\* C4: the context is current on at most one thread.
C4_OneThread ==
    Cardinality(current) <= 1

\* current on the emulation thread, inside the loop, after the hand-over
C4_Witness ==
    /\ current = {EMU} /\ ctx_thread = EMU
    /\ pc = "L45" /\ ctx_op.op = "make" /\ ctx_op.by = EMU

\* C5 as stated: after a moveContext the context is current on exactly one
\* thread, the destination of the migration.
C5_CurrentOnDestination ==
    ctx_op.op = "move" => current = {ctx_op.dest}

\* C5 as amended: after a moveContext the context is not current on the
\* calling thread and is current on at most one thread; when the caller was
\* the context's thread, it is current on none and belongs to the
\* destination, which has yet to make it current.
C5_ReleasedAndMoved ==
    ctx_op.op = "move" =>
        /\ ctx_op.by \notin current
        /\ Cardinality(current) <= 1
        /\ ctx_op.owned => (current = {} /\ ctx_thread = ctx_op.dest)

\* the migration back at the end of run(), after the one at the start
C5_Witness ==
    /\ ctx_op.op = "move" /\ ctx_op.by = EMU /\ ctx_op.owned
    /\ pc = "done" /\ ctx_thread = GUI

\* C6: a stop requested after the thread was started is followed by the
\* thread leaving its loop and finishing run().
C6_StopObserved ==
    stopped ~> (pc = "done" \/ fatal)

\* C9: inside the wait (lock held for the predicate, blocked, or woken) the
\* thread emits nothing and calls nothing; with the predicate false it stays
\* inside the wait, a wakeup leading back to blocking; it leaves the wait for
\* the loop condition only, and only with the predicate true.
WaitStates == {"L60", "waiting", "woken"}

InWaitStep ==
    pc \in WaitStates =>
        /\ notes' = notes /\ owed' >= owed
        /\ pc' \in WaitStates \cup {"L38"}
        /\ (~WaitPredicate => pc' \in WaitStates)
        /\ ((pc = "L60" /\ ~WaitPredicate /\ pc' # pc) => pc' = "waiting")

C9_IdleWait == [][InWaitStep]_vars

\* woken with nothing requested (a spurious wakeup), the predicate false
C9_Witness ==
    /\ pc = "woken" /\ ~WaitPredicate
    /\ nSetRunning = 0 /\ nStepReq = 0 /\ ~stopped

\* C10: an acquire on a thread while the context is current on another thread
\* is fatal and leaves the context where it was.
C10_AcquireElsewhereFatal ==
    (ctx_op.op = "make" /\ ctx_op.elsewhere) =>
        /\ fatal
        /\ ctx_op.by \notin current
        /\ Cardinality(current) = 1

\* the scheduler's entry action, the context still current on the GUI thread
C10_Witness ==
    /\ ctx_op.op = "make" /\ ctx_op.elsewhere /\ ctx_op.by = EMU
    /\ fatal /\ current = {GUI}

\* C7: an axis sample emits events on a change of the discretized direction
\* only: the samples 0, -9000, -9000, 0, 9000 fed in this order to one axis
\* emit release(neg); press(neg); nothing; release(neg); press(pos), and a
\* sample that repeats the previous raw value emits nothing.
NegCode(axis) == IF axis = "leftx" THEN Key_Left ELSE Key_Up
PosCode(axis) == IF axis = "leftx" THEN Key_Right ELSE Key_Down

C7_Debounced ==
    (sample.axis \in HandledAxes /\ sample.todo = <<>>) =>
        LET neg == NegCode(sample.axis)
            pos == PosCode(sample.axis)
            p == sample.prev
            v == sample.value
        IN  /\ (p = <<v>>) => emitted = <<>>
            /\ (p = <<>> /\ v = 0) => emitted = << <<"release", neg>> >>
            /\ (p = <<0>> /\ v = -9000) => emitted = << <<"press", neg>> >>
            /\ (p = <<-9000>> /\ v = 0) => emitted = << <<"release", neg>> >>
            /\ (p = <<0>> /\ v = 9000) => emitted = << <<"press", pos>> >>

\* C8: a lookup made while a reload is in progress sees the table as it was
\* before the reload or as the reload leaves it; a code bound in both is
\* found.
C8_ReloadAtomic ==
    lookup.mid =>
        /\ lookup.sawOld \/ lookup.sawNew
        /\ (lookup.inOld /\ lookup.inNew) => lookup.found

-----------------------------------------------------------------------------
\* C11: once a RunLoop or SingleStep call has reported a fatal error, the
\* scheduler makes no further RunLoop or SingleStep call.
C11_NoCallAfterError ==
    [][core_error => ~((pc = "L43" /\ pc' = "L45") \/ (pc = "L53" /\ pc' = "L54"))]_vars

\* C12: every step of run() that reads or writes running, exec_step or
\* stop_run (the reset of line 32, the tests of lines 38, 39, 46 and 48, the
\* recomputation of line 45, the clearing of line 52, the predicate of line
\* 60) is taken with running_mutex held by the emulation thread.
FlagAccess == {"L32", "L38", "L39", "L45", "L45b", "L46", "L48", "L52", "L60"}

C12_FlagsUnderLock ==
    [][(pc \in FlagAccess /\ pc' # pc) => mutex = EMU]_vars

\* C13: a controller button event whose button has no entry in
\* gamepad_mappings makes no KeyMap call and changes neither the machine
\* input state nor the table; a press or release of a code the table does not
\* bind (from a key event, or from a button that has an entry) changes neither.
UnmappedButtons == Buttons \ DOMAIN gamepad_mappings

C13_Step ==
    /\ \A b \in UnmappedButtons, st \in {"press", "release"} :
          gamepadButtonEvent(b, st) =>
              (emitted' = <<>> /\ pressed' = pressed /\ keymap' = keymap
               /\ lookup' = lookup)
    /\ \A b \in DOMAIN gamepad_mappings, st \in {"press", "release"} :
          (gamepad_mappings[b] \notin DOMAIN keymap /\ gamepadButtonEvent(b, st)) =>
              (pressed' = pressed /\ keymap' = keymap)
    /\ \A code \in Codes :
          (code \notin DOMAIN keymap /\ (keyPressEvent(code) \/ keyReleaseEvent(code))) =>
              (pressed' = pressed /\ keymap' = keymap)

C13_UnboundNoOp == [][C13_Step]_vars

\* a button without entry was released while a key was held: it is still held
C13_Witness ==
    /\ button_ev.button = "guide" /\ ~button_ev.mapped
    /\ button_ev.state = "release"
    /\ pressed # {} /\ emitted = <<>>

\* C14: Shutdown is called exactly once by a run() that leaves its loop, and
\* not before: it has been called exactly when the thread is past line 65;
\* once it has been called the thread calls neither RunLoop nor SingleStep and
\* emits nothing; the exit moveContext of the thread comes after it.
AfterShutdown == {"L71", "done"}

C14_ShutdownOnce ==
    /\ [](nShutdown = (IF pc \in AfterShutdown THEN 1 ELSE 0))
    /\ []((ctx_op.op = "move" /\ ctx_op.by = EMU) => nShutdown = 1)
    /\ [][nShutdown > 0 =>
            /\ notes' = notes
            /\ pc' \in AfterShutdown
            /\ core_error' = core_error /\ nShutdown' = nShutdown]_vars
    /\ [][(pc = "L71" /\ pc' # pc) =>
            (ctx_op'.op = "move" /\ ctx_op'.by = EMU /\ EMU \notin current')]_vars

\* the thread has finished after a run iteration and a step, shut down once
C14_Witness ==
    /\ pc = "done" /\ nShutdown = 1
    /\ ctx_op.op = "move" /\ ctx_op.by = EMU /\ ctx_thread = GUI
    /\ Len(notes) >= 3 /\ nStepReq > 0 /\ nSetRunning > 0

\* C15: a moveContext releases the context on the calling thread; its
\* destination is the emulation thread exactly when it is called on the GUI
\* thread with emu_thread set, the GUI thread when called on the GUI thread
\* with emu_thread null and whenever called on the emulation thread; a context
\* that lived in the calling thread lives in the destination afterwards.
C15_Step ==
    /\ GuiMoveContext =>
          /\ current' = current \ {GUI}
          /\ ctx_op'.op = "move" /\ ctx_op'.by = GUI
          /\ ctx_op'.dest = (IF emu_thread THEN EMU ELSE GUI)
          /\ (ctx_thread = GUI) => (ctx_thread' = (IF emu_thread THEN EMU ELSE GUI))
    /\ RunExit =>
          /\ current' = current \ {EMU}
          /\ ctx_op'.op = "move" /\ ctx_op'.by = EMU
          /\ ctx_op'.dest = GUI
          /\ (ctx_thread = EMU) => (ctx_thread' = GUI)

C15_Destination == [][C15_Step]_vars

\* a moveContext on the GUI thread after OnEmulationStopping: it stays there
C15_Witness ==
    /\ ctx_op.op = "move" /\ ctx_op.by = GUI /\ ctx_op.dest = GUI /\ ctx_op.owned
    /\ pc = "done" /\ nShutdown = 1 /\ ~emu_thread /\ ctx_thread = GUI

\* C16 as stated: running set, or a step requested, while the thread is
\* past its branch tests, in the wait or blocked, is followed (unless a stop
\* is requested) by a RunLoop call, respectively a SingleStep call.
Window == {"L59", "L60", "waiting", "woken"}

C16_EveryWakeupServed ==
    /\ (pc \in Window /\ running /\ ~stop_run) ~> (pc = "L45" \/ stop_run \/ fatal)
    /\ (pc \in Window /\ exec_step /\ ~stop_run) ~> (pc = "L54" \/ stop_run \/ fatal)

\* C16 as amended: running set in that window is followed by a RunLoop call
\* unless running is cleared again or a stop is requested first; a step
\* requested in that window is followed by a SingleStep call unless running
\* is set (the step then waits) or a stop is requested first.  The thread
\* never stays blocked with its predicate true.
C16_NoMissedWakeup ==
    /\ (pc \in Window /\ running) ~> (pc = "L45" \/ ~running \/ stop_run \/ fatal)
    /\ (pc \in Window /\ exec_step) ~> (pc = "L54" \/ running \/ stop_run \/ fatal)
    /\ [](pc = "waiting" => ~WaitPredicate)

\* running was set after both branch tests and before the lock was taken
C16_Witness ==
    /\ pc = "L59" /\ running /\ ~exec_step /\ ~stop_run
    /\ nSetRunning = 1 /\ nStepReq = 0 /\ ~stopped

\* C17 as stated: while running is true the scheduler never clears the step
\* flag (it only invokes RunLoop).
C17_NoStepWhileRunning ==
    [][running => ~(pc = "L52" /\ pc' = "L53")]_vars

\* C17 as amended: an iteration that reads running true takes the RunLoop branch, and
\* that branch never clears the step flag.  A step requested during a RunLoop
\* call (before line 45 has read the flag) stays set and keeps the scheduler
\* active: until line 52 clears the flag no notification is emitted (no
\* DebugModeEntered when running becomes false, no DebugModeLeft before the
\* step), the thread never enters the wait, and the first iteration that
\* reads running false takes the step branch; the flag is cleared by line 52
\* only, followed by one SingleStep and one DebugModeEntered.
RunBranch == {"L40", "L43", "L45", "L45b", "L46"}

C17_Carried ==
    step_in_run =>
        /\ exec_step
        /\ pc \notin {"L59", "L60", "waiting", "woken", "L54"}
        /\ (pc \in {"L46", "L38", "L39", "L40", "L48", "L49", "L52"}) => was_active

C17_Step ==
    /\ (pc = "L39" /\ running /\ pc' # pc) => pc' = "L40"
    /\ (pc \in RunBranch /\ exec_step) => exec_step'
    /\ step_in_run => notes' = notes
    /\ (step_in_run /\ pc = "L48" /\ pc' # pc) => pc' = "L49"
    /\ (step_in_run /\ ~step_in_run') =>
          (pc = "L52" /\ pc' = "L53" /\ ~exec_step'
           /\ notes # <<>> /\ notes[Len(notes)] = "Left")
    /\ (pc = "L53" /\ pc' # pc) => (pc' = "L54" /\ owed' = owed - 1)
    /\ (pc = "L54" /\ pc' # pc) => notes' = Append(notes, "Entered")

C17_RunningFirst == [](C17_Carried) /\ [][C17_Step]_vars

\* a step requested during the RunLoop call, running cleared afterwards: the
\* thread stands at line 52, past line 50, and has emitted DebugModeLeft once
C17_Witness ==
    /\ pc = "L52" /\ step_in_run /\ was_active /\ ~running
    /\ notes = <<"Left">> /\ nStepReq = 1 /\ ~stop_run

\* C18: a sample v on the left X or left Y axis makes exactly two calls, in
\* this order: press of the negative code if v < -8000, else its release;
\* then press of the positive code if v > 8000, else its release; v = -8000
\* and v = 8000 give two releases; a sample on another axis makes no call.
\* At every moment the calls made and the calls still to make are these.
C18_Expected(axis, v) ==
    IF axis \in HandledAxes
       THEN << <<IF v < -8000 THEN "press" ELSE "release", NegCode(axis)>>,
               <<IF v > 8000 THEN "press" ELSE "release", PosCode(axis)>> >>
       ELSE <<>>

C18_TwoEvents ==
    /\ emitted \o sample.todo = C18_Expected(sample.axis, sample.value)
    /\ (sample.axis \in HandledAxes /\ sample.todo = <<>>) =>
          /\ Len(emitted) = 2
          /\ emitted[1][2] = NegCode(sample.axis)
          /\ emitted[2][2] = PosCode(sample.axis)
          /\ (sample.value \in {-8000, 8000}) =>
                (emitted[1][1] = "release" /\ emitted[2][1] = "release")

\* a sample exactly on the negative threshold of the left Y axis, handled
C18_Witness ==
    /\ sample.axis = "lefty" /\ sample.value = -8000 /\ sample.todo = <<>>
    /\ emitted = << <<"release", Key_Up>>, <<"release", Key_Down>> >>

\* C19: the target bound to the negative code and the target bound to the
\* positive code of one axis are never held at the same moment, the moment
\* between the two calls of one sample included.
C19_NeverBothPressed ==
    \A a \in HandledAxes :
        (NegCode(a) \in DOMAIN keymap /\ PosCode(a) \in DOMAIN keymap) =>
            ~(keymap[NegCode(a)] \in pressed /\ keymap[PosCode(a)] \in pressed)

\* C20: whenever the thread is about to call RunLoop (line 43) or SingleStep
\* (lines 52-53), the last notification emitted is DebugModeLeft.
C20_RunsOutsideDebugMode ==
    pc \in {"L43", "L52", "L53"} =>
        (notes # <<>> /\ notes[Len(notes)] = "Left")

\* a RunLoop call that follows an earlier pause: left, entered, left again
C20_Witness ==
    /\ pc = "L43" /\ Len(notes) = 3 /\ notes[3] = "Left"
    /\ nSetRunning >= 2

=============================================================================
